---- MODULE Spec2Model ----
(***************************************************************************)
(* Scale-down engine of the escalator controller                           *)
(* (pkg/controller scale_down.go: ScaleDown, TryRemoveTaintedNodes,        *)
(* scaleDownTaint, taintOldestN).                                          *)
(*                                                                         *)
(* Every node group runs ScaleDown cycles; cycles of different node groups *)
(* interleave.  The package k8s (taint fail-safe lock, taint, cordon) and  *)
(* the listing of a group's nodes are not part of the analysed sources:    *)
(* the fail-safe lock and the listing follow the written specification,    *)
(* the node primitives are environment calls that may succeed or fail.     *)
(*                                                                         *)
(* Positions in Go slices are 0-based; the sequences here are 1-based, so  *)
(* bundle.index k of the source is position k+1 here.                      *)
(***************************************************************************)
EXTENDS Integers, Sequences, FiniteSets, TLC

(* ---------------------------- bounds of the model ---------------------- *)
\* ceiling of the fail-safe lock (10 in the deployed package), scaled down
MaximumTaints == 2
\* nodes of one node group
NumNodes == 3
\* the clock runs over 0..MaxTime
MaxTime == 2
\* ScaleDown cycles one node group runs
MaxCycles == 2
\* nodesDelta, a count of nodes to remove, is drawn from 0..MaxDelta
MaxDelta == 3
\* MinNodes is drawn from 0..MaxMinNodes
MaxMinNodes == 3

Groups == {"g1", "g2"}
NodeIds == 1..NumNodes
\* a taint whose timestamp cannot be decoded
NoTime == 0 - 1
\* no reservation recorded for a node group
NoReservation == 0 - 1000

Min2(a, b) == IF a < b THEN a ELSE b

VARIABLES
    now,            \* time.Now()
    nodes,          \* the cluster: nodes[g][id], one record per node
    cfg,            \* nodeGroup.Opts of every node group
    masterDry,      \* the controller's master drymode flag
    taintTracker,   \* nodeGroup.taintTracker
    reserved,       \* fail-safe lock: the shared ceiling counter
    record,         \* fail-safe lock: reservation record of every holder
    taintCount,     \* fail-safe lock: dry-run counter
    pc,             \* position of every node group's cycle
    cycles,         \* cycles started by every node group
    opts,           \* scaleOpts of the running cycle
    idx,            \* loop position (Reaper: range index, Tainter: i)
    toBeDeleted,    \* TryRemoveTaintedNodes: toBeDeleted
    removed,        \* ScaleDown: removed
    nodesToRemove,  \* scaleDownTaint: nodesToRemove
    sorted,         \* taintOldestN: sorted (bundle.index of every entry)
    taintedIndices, \* taintOldestN: taintedIndices
    ret,            \* what ScaleDown returned: [n, err]
    reapLog,        \* per examined tainted node: what the Reaper saw and did
    calls           \* calls issued to the cluster and the backend this cycle

clusterVars == <<now, nodes>>
groupVars == <<cfg, masterDry, taintTracker>>
lockVars == <<reserved, record, taintCount>>
reapVars == <<toBeDeleted, removed, reapLog>>
taintVars == <<nodesToRemove, sorted, taintedIndices>>
vars == <<now, nodes, cfg, masterDry, taintTracker, reserved, record,
          taintCount, pc, cycles, opts, idx, toBeDeleted, removed,
          nodesToRemove, sorted, taintedIndices, ret, reapLog, calls>>

(* ------------------------------ helpers -------------------------------- *)
Range(s) == {s[i] : i \in 1..Len(s)}

\* the ids of S in increasing order, as a sequence
RECURSIVE SeqOfSet(_)
SeqOfSet(S) ==
    IF S = {} THEN <<>>
    ELSE LET m == CHOOSE x \in S : \A y \in S : x <= y
         IN <<m>> \o SeqOfSet(S \ {m})

\* c.dryMode(nodeGroup)
dryMode(g) == cfg[g].DryMode \/ masterDry

NoErr == "nil"
ErrBelowMin == "less than specified minimum"
ErrCapacityExceeded == "CapacityExceeded"
ErrReservationMismatch == "ReservationMismatch"

\* the calls of one cycle, in order, the tracker as the cycle found it, and
\* the nodes of the previous cycle's delete request if the backend failed it
NoCalls == [taint |-> <<>>, cordon |-> <<>>, delete |-> <<>>,
            reserve |-> <<>>, release |-> <<>>, tracker0 |-> <<>>,
            retry |-> {}]
NoOpts == [taintedNodes |-> <<>>, untaintedNodes |-> <<>>, nodesDelta |-> 0]
NoRet == [n |-> 0, err |-> NoErr]

(* --------------------------- pure parts of the code -------------------- *)
\* a grace-period test in which the hard period overrides the soft one too
EligibleHardFirst(elapsed, soft, hard, empty) ==
    elapsed > hard \/ (elapsed > soft /\ empty)

\* a grace-period test in which the hard period alone does not override
EligibleOnlyIfEmpty(elapsed, soft, hard, empty) ==
    elapsed > soft /\ empty

\* the grace-period test of TryRemoveTaintedNodes
Eligible(elapsed, soft, hard, empty) ==
    elapsed > soft /\ (empty \/ elapsed > hard)

\* a Reaper that cordons in dry mode too
ReaperCordonsAlways(eligible, drymode) ==
    eligible

\* TryRemoveTaintedNodes: an eligible node is cordoned unless in dry mode
ReaperCordons(eligible, drymode) ==
    eligible /\ ~drymode

\* a range loop that a per-node failure ends
ReaperContinueBreaks(i, len, failed) ==
    IF failed THEN len + 1 ELSE i + 1

\* TryRemoveTaintedNodes: "continue" after a per-node failure, like the end
\* of the loop body, goes on with the next candidate
ReaperContinue(i, len, failed) ==
    i + 1

\* a Reaper that counts confirmed deletions
ReaperReturnConfirmed(batch, ok) ==
    IF ok THEN Len(batch) ELSE 0

\* TryRemoveTaintedNodes returns len(toBeDeleted), the size of the request
ReaperReturn(batch, ok) ==
    Len(batch)

\* a clamp that stops one node short of the floor
ClampOffByOne(untaintedLen, nodesDelta, minNodes) ==
    IF untaintedLen - nodesDelta < minNodes
    THEN untaintedLen - minNodes - 1
    ELSE nodesDelta

\* a clamp that forgets the floor
ClampNoFloor(untaintedLen, nodesDelta, minNodes) ==
    nodesDelta

\* scaleDownTaint: the clamp of nodesDelta to the MinNodes floor
ClampNodesToRemove(untaintedLen, nodesDelta, minNodes) ==
    IF untaintedLen - nodesDelta < minNodes
    THEN untaintedLen - minNodes
    ELSE nodesDelta

\* a clamp whose abort test is off by one
ClampAbortsOffByOne(untaintedLen, nodesDelta, minNodes) ==
    /\ untaintedLen - nodesDelta < minNodes
    /\ untaintedLen - minNodes < 0 - 1

\* a clamp that never aborts
ClampNeverAborts(untaintedLen, nodesDelta, minNodes) ==
    FALSE

\* scaleDownTaint: "If have less node than the minimum, abort!"
ClampAborts(untaintedLen, nodesDelta, minNodes) ==
    /\ untaintedLen - nodesDelta < minNodes
    /\ untaintedLen - minNodes < 0

\* a walk whose ceiling counts the nodes marked, not the candidates examined
LoopBreakOnMarked(lenTainted, n, i) ==
    lenTainted >= n \/ lenTainted >= MaximumTaints

\* a walk that stops on the requested count only
LoopBreakOnCountOnly(lenTainted, n, i) ==
    lenTainted >= n

\* taintOldestN: the break test of the walk; i is the 0-based range index
LoopBreak(lenTainted, n, i) ==
    lenTainted >= n \/ i >= MaximumTaints

\* a tracker that remembers the last simulated taint only
TrackerKeepsLast(tracker, name) ==
    <<name>>

\* taintOldestN in dry mode: the node's name is appended to the tracker
TrackerAppend(tracker, name) ==
    Append(tracker, name)

\* a bundle that reports its place in the sorted order
BundleIndexSortedPosition(sortedSeq, i) ==
    i

\* nodeIndexBundle.index: the position of the i-th sorted entry in the
\* parameter nodes, not the sorted index
BundleIndex(sortedSeq, i) ==
    sortedSeq[i]

\* sort.Sort(nodesByOldestCreationTime): any order of the positions 1..Len
\* that is non-decreasing in creation time (the sort is not stable)
SortedOrders(g, untainted) ==
    LET n == Len(untainted)
    IN {p \in [1..n -> 1..n] :
          /\ \A i, j \in 1..n : i # j => p[i] # p[j]
          /\ \A i \in 1..n : i < n =>
                nodes[g][untainted[p[i]]].created <=
                nodes[g][untainted[p[i + 1]]].created}

(* ----------------------------- fail-safe lock -------------------------- *)
\* Reserve(n) is refused when granting n would exceed the ceiling
BeginTaintFailSafeRefused(counter, n) ==
    counter + n > MaximumTaints

\* Release(actual) reports a mismatch with the reservation record
EndTaintFailSafeMismatch(rec, actual) ==
    actual # rec

\* a Release that keeps the reservation on the counter
EndTaintFailSafeKeeps(counter, rec) ==
    counter

\* Release gives the reservation back to the ceiling counter
EndTaintFailSafeCounter(counter, rec) ==
    counter - rec

\* a scaleDownTaint that returns no count along with a lock error
scaleDownTaintReturnZeroOnError(actual, err) ==
    [n |-> IF err = NoErr THEN actual ELSE 0, err |-> err]

\* scaleDownTaint: len(tainted) is returned with or without the lock's error
scaleDownTaintReturn(actual, err) ==
    [n |-> actual, err |-> err]

(* ------------------------------- listing ------------------------------- *)
TaintedOf(g) ==
    SeqOfSet({id \in NodeIds : nodes[g][id].tainted /\ ~nodes[g][id].deleted})

UntaintedOf(g) ==
    SeqOfSet({id \in NodeIds : ~nodes[g][id].tainted /\ ~nodes[g][id].deleted})

Deltas == 0..MaxDelta

(* ------------------------------- actions ------------------------------- *)
\* the clock advances
Tick ==
    /\ now < MaxTime
    /\ now' = now + 1
    /\ UNCHANGED <<nodes, groupVars, lockVars, pc, cycles, opts, idx,
                   reapVars, taintVars, ret, calls>>

\* the nodes of the last delete request of g, if the backend failed it
FailedBatch(g) ==
    IF Len(calls[g].delete) = 1 /\ ~calls[g].delete[1].ok
    THEN Range(calls[g].delete[1].batch)
    ELSE {}

\* ScaleDown(opts) is called for node group g with fresh scaleOpts
ScaleDown(g) ==
    /\ pc[g] = "idle"
    /\ cycles[g] < MaxCycles
    /\ \E d \in Deltas :
          opts' = [opts EXCEPT ![g] = [taintedNodes |-> TaintedOf(g),
                                       untaintedNodes |-> UntaintedOf(g),
                                       nodesDelta |-> d]]
    /\ cycles' = [cycles EXCEPT ![g] = @ + 1]
    /\ pc' = [pc EXCEPT ![g] = "reap"]
    /\ idx' = [idx EXCEPT ![g] = 1]
    /\ toBeDeleted' = [toBeDeleted EXCEPT ![g] = <<>>]
    /\ removed' = [removed EXCEPT ![g] = 0]
    /\ reapLog' = [reapLog EXCEPT ![g] = <<>>]
    /\ nodesToRemove' = [nodesToRemove EXCEPT ![g] = 0]
    /\ sorted' = [sorted EXCEPT ![g] = <<>>]
    /\ taintedIndices' = [taintedIndices EXCEPT ![g] = <<>>]
    /\ ret' = [ret EXCEPT ![g] = NoRet]
    /\ calls' = [calls EXCEPT ![g] =
                    [NoCalls EXCEPT !.tracker0 = taintTracker[g],
                                    !.retry = FailedBatch(g)]]
    /\ UNCHANGED <<clusterVars, groupVars, lockVars>>

\* TryRemoveTaintedNodes: one iteration of the range over opts.taintedNodes
TryRemoveTaintedNodes(g) ==
    /\ pc[g] = "reap"
    /\ idx[g] <= Len(opts[g].taintedNodes)
    /\ \E empty \in BOOLEAN, cordonOk \in BOOLEAN :
          LET id == opts[g].taintedNodes[idx[g]]
              readable == nodes[g][id].taintedAt # NoTime
              elapsed == IF readable THEN now - nodes[g][id].taintedAt ELSE 0
              asked == readable /\ elapsed > cfg[g].Soft
              elig == readable /\ Eligible(elapsed, cfg[g].Soft, cfg[g].Hard, empty)
              cordon == ReaperCordons(elig, dryMode(g))
              batched == cordon /\ cordonOk
          IN /\ nodes' = IF batched
                         THEN [nodes EXCEPT ![g][id].cordoned = TRUE]
                         ELSE nodes
             /\ toBeDeleted' = IF batched
                               THEN [toBeDeleted EXCEPT ![g] = Append(@, id)]
                               ELSE toBeDeleted
             /\ calls' = IF cordon
                         THEN [calls EXCEPT ![g].cordon = Append(@, id)]
                         ELSE calls
             /\ reapLog' = [reapLog EXCEPT ![g] = Append(@,
                               [node |-> id, readable |-> readable,
                                elapsed |-> elapsed,
                                empty |-> asked /\ empty,
                                eligible |-> elig,
                                cordon |-> cordon, batched |-> batched])]
             /\ idx' = [idx EXCEPT ![g] =
                           ReaperContinue(@, Len(opts[g].taintedNodes),
                                          ~readable \/ (cordon /\ ~cordonOk))]
    /\ UNCHANGED <<now, groupVars, lockVars, pc, cycles, opts,
                   removed, taintVars, ret>>

\* a Reaper that takes its cordons back when the backend fails the delete
DeleteNodesUncordonsOnFailure(g) ==
    /\ pc[g] = "reap"
    /\ idx[g] > Len(opts[g].taintedNodes)
    /\ \E ok \in BOOLEAN :
          /\ calls' = [calls EXCEPT ![g].delete =
                          Append(@, [batch |-> toBeDeleted[g], ok |-> ok])]
          /\ nodes' = [nodes EXCEPT ![g] =
                         [id \in NodeIds |->
                            IF id \in Range(toBeDeleted[g])
                            THEN IF ok THEN [@[id] EXCEPT !.deleted = TRUE]
                                 ELSE [@[id] EXCEPT !.cordoned = FALSE]
                            ELSE @[id]]]
    /\ removed' = [removed EXCEPT ![g] = Len(toBeDeleted[g])]
    /\ pc' = [pc EXCEPT ![g] = "taint"]
    /\ UNCHANGED <<now, groupVars, lockVars, cycles, opts, idx,
                   toBeDeleted, reapLog, taintVars, ret>>

\* a ScaleDown that returns the Reaper's count and error when the delete fails
DeleteNodesStopsOnFailure(g) ==
    /\ pc[g] = "reap"
    /\ idx[g] > Len(opts[g].taintedNodes)
    /\ \E ok \in BOOLEAN :
          /\ calls' = [calls EXCEPT ![g].delete =
                          Append(@, [batch |-> toBeDeleted[g], ok |-> ok])]
          /\ nodes' = IF ok
                      THEN [nodes EXCEPT ![g] =
                              [id \in NodeIds |->
                                 IF id \in Range(toBeDeleted[g])
                                 THEN [@[id] EXCEPT !.deleted = TRUE]
                                 ELSE @[id]]]
                      ELSE nodes
          /\ pc' = [pc EXCEPT ![g] = IF ok THEN "taint" ELSE "idle"]
          /\ ret' = IF ok THEN ret
                    ELSE [ret EXCEPT ![g] = [n |-> Len(toBeDeleted[g]),
                                             err |-> "delete failed"]]
    /\ removed' = [removed EXCEPT ![g] = Len(toBeDeleted[g])]
    /\ UNCHANGED <<now, groupVars, lockVars, cycles, opts, idx,
                   toBeDeleted, reapLog, taintVars>>

\* TryRemoveTaintedNodes: the batched delete request and the return
DeleteNodes(g) ==
    /\ pc[g] = "reap"
    /\ idx[g] > Len(opts[g].taintedNodes)
    /\ \E ok \in BOOLEAN :
          /\ calls' = [calls EXCEPT ![g].delete =
                          Append(@, [batch |-> toBeDeleted[g], ok |-> ok])]
          /\ nodes' = IF ok
                      THEN [nodes EXCEPT ![g] =
                              [id \in NodeIds |->
                                 IF id \in Range(toBeDeleted[g])
                                 THEN [@[id] EXCEPT !.deleted = TRUE]
                                 ELSE @[id]]]
                      ELSE nodes
          /\ removed' = [removed EXCEPT ![g] =
                            ReaperReturn(toBeDeleted[g], ok)]
    /\ pc' = [pc EXCEPT ![g] = "taint"]
    /\ UNCHANGED <<now, groupVars, lockVars, cycles, opts, idx,
                   toBeDeleted, reapLog, taintVars, ret>>

\* scaleDownTaint that logs a refused reservation and taints all the same
scaleDownTaintUnlocked(g) ==
    /\ pc[g] = "taint"
    /\ LET len == Len(opts[g].untaintedNodes)
           n == ClampNodesToRemove(len, opts[g].nodesDelta, cfg[g].MinNodes)
           refused == BeginTaintFailSafeRefused(reserved, n)
       IN /\ nodesToRemove' = [nodesToRemove EXCEPT ![g] = n]
          /\ IF ClampAborts(len, opts[g].nodesDelta, cfg[g].MinNodes)
             THEN /\ ret' = [ret EXCEPT ![g] = [n |-> 0, err |-> ErrBelowMin]]
                  /\ pc' = [pc EXCEPT ![g] = "idle"]
                  /\ UNCHANGED <<reserved, record, calls>>
             ELSE /\ reserved' = IF refused THEN reserved ELSE reserved + n
                  /\ record' = IF refused THEN record
                                ELSE [record EXCEPT ![g] = n]
                  /\ calls' = [calls EXCEPT ![g].reserve =
                                  Append(@, [n |-> n, granted |-> ~refused,
                                             before |-> reserved,
                                             after |-> reserved'])]
                  /\ pc' = [pc EXCEPT ![g] = "sort"]
                  /\ UNCHANGED ret
    /\ UNCHANGED <<clusterVars, groupVars, taintCount, cycles, opts,
                   idx, reapVars, sorted, taintedIndices>>

\* scaleDownTaint up to the fail-safe reservation
scaleDownTaint(g) ==
    /\ pc[g] = "taint"
    /\ LET len == Len(opts[g].untaintedNodes)
           n == ClampNodesToRemove(len, opts[g].nodesDelta, cfg[g].MinNodes)
       IN /\ nodesToRemove' = [nodesToRemove EXCEPT ![g] = n]
          /\ IF ClampAborts(len, opts[g].nodesDelta, cfg[g].MinNodes)
             THEN /\ ret' = [ret EXCEPT ![g] = [n |-> 0, err |-> ErrBelowMin]]
                  /\ pc' = [pc EXCEPT ![g] = "idle"]
                  /\ UNCHANGED <<reserved, record, calls>>
             ELSE IF BeginTaintFailSafeRefused(reserved, n)
             THEN /\ ret' = [ret EXCEPT ![g] =
                               [n |-> 0, err |-> ErrCapacityExceeded]]
                  /\ pc' = [pc EXCEPT ![g] = "idle"]
                  /\ calls' = [calls EXCEPT ![g].reserve =
                                  Append(@, [n |-> n, granted |-> FALSE,
                                             before |-> reserved,
                                             after |-> reserved])]
                  /\ UNCHANGED <<reserved, record>>
             ELSE /\ reserved' = reserved + n
                  /\ record' = [record EXCEPT ![g] = n]
                  /\ calls' = [calls EXCEPT ![g].reserve =
                                  Append(@, [n |-> n, granted |-> TRUE,
                                             before |-> reserved,
                                             after |-> reserved + n])]
                  /\ pc' = [pc EXCEPT ![g] = "sort"]
                  /\ UNCHANGED ret
    /\ UNCHANGED <<clusterVars, groupVars, taintCount, cycles, opts,
                   idx, reapVars, sorted, taintedIndices>>

\* taintOldestN: the sort and the allocation of taintedIndices;
\* make([]int, 0, n) is a run-time panic when n < 0
taintOldestN(g) ==
    /\ pc[g] = "sort"
    /\ \E p \in SortedOrders(g, opts[g].untaintedNodes) :
          sorted' = [sorted EXCEPT ![g] = p]
    /\ pc' = [pc EXCEPT ![g] = IF nodesToRemove[g] < 0 THEN "panic"
                                ELSE "loop"]
    /\ idx' = [idx EXCEPT ![g] = 1]
    /\ taintedIndices' = [taintedIndices EXCEPT ![g] = <<>>]
    /\ UNCHANGED <<clusterVars, groupVars, lockVars, cycles, opts, reapVars,
                   nodesToRemove, ret, calls>>

\* taintOldestN: one iteration of the walk over sorted
TaintNode(g) ==
    /\ pc[g] = "loop"
    /\ idx[g] <= Len(sorted[g])
    /\ ~LoopBreak(Len(taintedIndices[g]), nodesToRemove[g], idx[g] - 1)
    /\ LET index == BundleIndex(sorted[g], idx[g])
           id == opts[g].untaintedNodes[sorted[g][idx[g]]]
       IN IF ~dryMode(g)
          THEN /\ \E ok \in BOOLEAN :
                    IF ok
                    THEN /\ nodes' = [nodes EXCEPT ![g][id].tainted = TRUE,
                                                   ![g][id].taintedAt = now]
                         /\ taintedIndices' =
                               [taintedIndices EXCEPT ![g] = Append(@, index)]
                    ELSE UNCHANGED <<nodes, taintedIndices>>
               /\ calls' = [calls EXCEPT ![g].taint =
                               Append(@, [node |-> id,
                                          ok |-> nodes'[g][id].tainted])]
               /\ UNCHANGED <<taintTracker, taintCount>>
          ELSE /\ taintTracker' = [taintTracker EXCEPT ![g] =
                                      TrackerAppend(@, id)]
               /\ taintCount' = taintCount + 1
               /\ taintedIndices' =
                     [taintedIndices EXCEPT ![g] = Append(@, index)]
               /\ UNCHANGED <<nodes, calls>>
    /\ idx' = [idx EXCEPT ![g] = @ + 1]
    /\ UNCHANGED <<now, cfg, masterDry, reserved, record, pc, cycles,
                   opts, reapVars, nodesToRemove, sorted, ret>>

\* a scaleDownTaint that returns len(tainted) without EndTaintFailSafe
EndTaintFailSafeSkipped(g) ==
    /\ pc[g] = "loop"
    /\ \/ idx[g] > Len(sorted[g])
       \/ LoopBreak(Len(taintedIndices[g]), nodesToRemove[g], idx[g] - 1)
    /\ ret' = [ret EXCEPT ![g] =
                 scaleDownTaintReturn(Len(taintedIndices[g]), NoErr)]
    /\ pc' = [pc EXCEPT ![g] = "idle"]
    /\ UNCHANGED <<clusterVars, groupVars, lockVars, cycles, opts,
                   idx, reapVars, taintVars, calls>>

\* taintOldestN returns; scaleDownTaint validates the fail-safe and returns
EndTaintFailSafe(g) ==
    /\ pc[g] = "loop"
    /\ \/ idx[g] > Len(sorted[g])
       \/ LoopBreak(Len(taintedIndices[g]), nodesToRemove[g], idx[g] - 1)
    /\ LET actual == Len(taintedIndices[g])
           err == IF EndTaintFailSafeMismatch(record[g], actual)
                  THEN ErrReservationMismatch ELSE NoErr
       IN /\ reserved' = EndTaintFailSafeCounter(reserved, record[g])
          /\ record' = [record EXCEPT ![g] = NoReservation]
          /\ calls' = [calls EXCEPT ![g].release =
                          Append(@, [actual |-> actual, err |-> err,
                                     before |-> reserved,
                                     after |-> reserved'])]
          /\ ret' = [ret EXCEPT ![g] = scaleDownTaintReturn(actual, err)]
    /\ pc' = [pc EXCEPT ![g] = "idle"]
    /\ UNCHANGED <<clusterVars, groupVars, taintCount, cycles, opts,
                   idx, reapVars, taintVars>>

Cycle(g) ==
    \/ ScaleDown(g)
    \/ TryRemoveTaintedNodes(g)
    \/ DeleteNodes(g)
    \/ scaleDownTaint(g)
    \/ taintOldestN(g)
    \/ TaintNode(g)
    \/ EndTaintFailSafe(g)

Next == Tick \/ \E g \in Groups : Cycle(g)

(* ---------------------------- initial states --------------------------- *)
FreshNode(c) ==
    [created |-> c, tainted |-> FALSE, taintedAt |-> NoTime,
     cordoned |-> FALSE, deleted |-> FALSE]

\* creation times of a group's nodes as listed: not in age order, with a tie
CreatedAt(id) == IF id = 1 THEN 2 ELSE 1

IdleCycle ==
    /\ idx = [g \in Groups |-> 1]
    /\ toBeDeleted = [g \in Groups |-> <<>>]
    /\ removed = [g \in Groups |-> 0]
    /\ sorted = [g \in Groups |-> <<>>]
    /\ taintedIndices = [g \in Groups |-> <<>>]
    /\ ret = [g \in Groups |-> NoRet]
    /\ reapLog = [g \in Groups |-> <<>>]
    /\ calls = [g \in Groups |-> NoCalls]

IdleLock ==
    /\ reserved = 0
    /\ record = [g \in Groups |-> NoReservation]
    /\ taintCount = 0

NoCycle ==
    /\ pc = [g \in Groups |-> "idle"]
    /\ opts = [g \in Groups |-> NoOpts]
    /\ nodesToRemove = [g \in Groups |-> 0]

\* a node that carries a taint this controller cannot date
UndatedNode(c) ==
    [created |-> c, tainted |-> TRUE, taintedAt |-> NoTime,
     cordoned |-> FALSE, deleted |-> FALSE]

TaintedNode(c, t) ==
    [created |-> c, tainted |-> TRUE, taintedAt |-> t,
     cordoned |-> FALSE, deleted |-> FALSE]

GoneNode(c) ==
    [created |-> c, tainted |-> TRUE, taintedAt |-> NoTime,
     cordoned |-> TRUE, deleted |-> TRUE]

Parked(g) == IF g = "g1" THEN 0 ELSE MaxCycles

\* Spec: node group g1 runs its cycles one after the other on an idle lock
Init ==
    /\ now = 0
    /\ \E last \in {"fresh", "undated", "dated"} :
          nodes = [g \in Groups |-> [id \in NodeIds |->
                      IF g = "g1" /\ id = NumNodes /\ last = "undated"
                      THEN UndatedNode(CreatedAt(id))
                      ELSE IF g = "g1" /\ id = NumNodes /\ last = "dated"
                      THEN TaintedNode(CreatedAt(id), 0)
                      ELSE FreshNode(CreatedAt(id))]]
    /\ masterDry \in BOOLEAN
    /\ \E m \in 0..MaxMinNodes, d \in BOOLEAN :
          cfg = [g \in Groups |->
                   [MinNodes |-> m, DryMode |-> d, Soft |-> 0, Hard |-> 1]]
    /\ taintTracker = [g \in Groups |-> <<>>]
    /\ IdleLock
    /\ IdleCycle
    /\ NoCycle
    /\ cycles = [g \in Groups |-> Parked(g)]

Spec == Init /\ [][Next]_vars

\* SpecConc: one cycle of each node group, running concurrently
InitConc ==
    /\ now = 0
    /\ nodes = [g \in Groups |-> [id \in NodeIds |->
                  IF id = NumNodes
                  THEN TaintedNode(CreatedAt(id), 0)
                  ELSE FreshNode(CreatedAt(id))]]
    /\ masterDry = FALSE
    /\ \E m \in 0..1, d \in BOOLEAN :
          cfg = [g \in Groups |->
                   [MinNodes |-> m, DryMode |-> d /\ g = "g2",
                    Soft |-> 0, Hard |-> 1]]
    /\ taintTracker = [g \in Groups |-> <<>>]
    /\ IdleLock
    /\ IdleCycle
    /\ NoCycle
    /\ cycles = [g \in Groups |-> MaxCycles - 1]

NextConc == \E g \in Groups : Cycle(g)

SpecConc == InitConc /\ [][NextConc]_vars

\* SpecOverlap: two cycles of node group g1 in a row, running concurrently
\* with one cycle of node group g2
InitOverlap ==
    /\ now = 0
    /\ nodes = [g \in Groups |-> [id \in NodeIds |->
                  IF id = NumNodes
                  THEN TaintedNode(CreatedAt(id), 0)
                  ELSE FreshNode(CreatedAt(id))]]
    /\ masterDry = FALSE
    /\ \E m \in 0..1, d \in BOOLEAN :
          cfg = [g \in Groups |->
                   [MinNodes |-> m, DryMode |-> d /\ g = "g2",
                    Soft |-> 0, Hard |-> 1]]
    /\ taintTracker = [g \in Groups |-> <<>>]
    /\ IdleLock
    /\ IdleCycle
    /\ NoCycle
    /\ cycles = [g \in Groups |-> IF g = "g1" THEN MaxCycles - 2
                                  ELSE MaxCycles - 1]

SpecOverlap == InitOverlap /\ [][NextConc]_vars

\* SpecReaper: one Reaper pass over every list of tainted nodes
InitReaper ==
    /\ now = MaxTime
    /\ \E at \in [NodeIds -> {NoTime} \cup 0..MaxTime] :
          nodes = [g \in Groups |-> [id \in NodeIds |->
                     IF g = "g1"
                     THEN TaintedNode(CreatedAt(id), at[id])
                     ELSE FreshNode(CreatedAt(id))]]
    /\ masterDry = FALSE
    /\ \E s \in 0..MaxTime, h \in 0..MaxTime, d \in BOOLEAN :
          cfg = [g \in Groups |->
                   [MinNodes |-> 0, DryMode |-> d, Soft |-> s, Hard |-> h]]
    /\ taintTracker = [g \in Groups |-> <<>>]
    /\ IdleLock
    /\ IdleCycle
    /\ nodesToRemove = [g \in Groups |-> 0]
    /\ pc = [g \in Groups |-> IF g = "g1" THEN "reap" ELSE "idle"]
    /\ cycles = [g \in Groups |-> MaxCycles]
    /\ opts = [g \in Groups |->
                 IF g = "g1"
                 THEN [taintedNodes |-> SeqOfSet(NodeIds),
                       untaintedNodes |-> <<>>, nodesDelta |-> 0]
                 ELSE NoOpts]

NextReaper == \E g \in Groups : TryRemoveTaintedNodes(g) \/ DeleteNodes(g)

SpecReaper == InitReaper /\ [][NextReaper]_vars

\* SpecClamp: one call of scaleDownTaint on every untainted list, every
\* MinNodes and every integer nodesDelta, negative ones included (the cycles
\* of the other specifications are handed counts, nodesDelta >= 0)
InitClamp ==
    /\ now = 0
    /\ \E U \in SUBSET NodeIds, d \in (0 - MaxDelta)..MaxDelta :
          /\ nodes = [g \in Groups |-> [id \in NodeIds |->
                        IF g = "g1" /\ id \notin U
                        THEN GoneNode(CreatedAt(id))
                        ELSE FreshNode(CreatedAt(id))]]
          /\ opts = [g \in Groups |->
                       IF g = "g1"
                       THEN [taintedNodes |-> <<>>,
                             untaintedNodes |-> SeqOfSet(U), nodesDelta |-> d]
                       ELSE NoOpts]
    /\ masterDry = FALSE
    /\ \E m \in 0..MaxMinNodes, d \in BOOLEAN :
          cfg = [g \in Groups |->
                   [MinNodes |-> m, DryMode |-> d, Soft |-> 0, Hard |-> 1]]
    /\ taintTracker = [g \in Groups |-> <<>>]
    /\ IdleLock
    /\ idx = [g \in Groups |-> 1]
    /\ toBeDeleted = [g \in Groups |-> <<>>]
    /\ removed = [g \in Groups |-> 0]
    /\ sorted = [g \in Groups |-> <<>>]
    /\ taintedIndices = [g \in Groups |-> <<>>]
    /\ ret = [g \in Groups |-> NoRet]
    /\ reapLog = [g \in Groups |-> <<>>]
    /\ calls = [g \in Groups |->
                  IF g = "g1"
                  THEN [NoCalls EXCEPT
                          !.delete = <<[batch |-> <<>>, ok |-> TRUE]>>]
                  ELSE NoCalls]
    /\ nodesToRemove = [g \in Groups |-> 0]
    /\ pc = [g \in Groups |-> IF g = "g1" THEN "taint" ELSE "idle"]
    /\ cycles = [g \in Groups |-> MaxCycles]

NextClamp ==
    \E g \in Groups :
        \/ scaleDownTaint(g)
        \/ taintOldestN(g)
        \/ TaintNode(g)
        \/ EndTaintFailSafe(g)

SpecClamp == InitClamp /\ [][NextClamp]_vars

\* SpecTainter: one call of taintOldestN on every candidate list and count n
InitTainter ==
    /\ now = 0
    /\ \E c \in [NodeIds -> 1..2], U \in SUBSET NodeIds, n \in Deltas :
          /\ nodes = [g \in Groups |-> [id \in NodeIds |->
                        IF g = "g1" /\ id \notin U
                        THEN GoneNode(c[id]) ELSE FreshNode(c[id])]]
          /\ opts = [g \in Groups |->
                       IF g = "g1"
                       THEN [taintedNodes |-> <<>>,
                             untaintedNodes |-> SeqOfSet(U), nodesDelta |-> n]
                       ELSE NoOpts]
          /\ nodesToRemove = [g \in Groups |-> IF g = "g1" THEN n ELSE 0]
          /\ record = [g \in Groups |->
                         IF g = "g1" THEN n ELSE NoReservation]
          /\ reserved = n
    /\ masterDry = FALSE
    /\ \E d \in BOOLEAN :
          cfg = [g \in Groups |->
                   [MinNodes |-> 0, DryMode |-> d, Soft |-> 0, Hard |-> 1]]
    /\ taintTracker = [g \in Groups |-> <<>>]
    /\ taintCount = 0
    /\ IdleCycle
    /\ pc = [g \in Groups |-> IF g = "g1" THEN "sort" ELSE "idle"]
    /\ cycles = [g \in Groups |-> MaxCycles]

NextTainter ==
    \E g \in Groups : taintOldestN(g) \/ TaintNode(g) \/ EndTaintFailSafe(g)

SpecTainter == InitTainter /\ [][NextTainter]_vars

(* ------------------------------ properties ----------------------------- *)
RECURSIVE SumOver(_, _)
SumOver(f, S) ==
    IF S = {} THEN 0
    ELSE LET x == CHOOSE y \in S : TRUE
         IN f[x] + SumOver(f, S \ {x})

\* the untainted nodes of the running cycle's list that are still untainted
StillUntainted(g) ==
    {id \in Range(opts[g].untaintedNodes) : ~nodes[g][id].tainted}

Finished(g) == pc[g] = "idle" /\ cycles[g] >= 1 /\ cycles[g] # Parked(g)

\* C1: a Tainter pass that starts with at least MinNodes untainted nodes
\* taints at most len(untaintedNodes) - MinNodes of them, so that at least
\* MinNodes of the listed nodes stay untainted, in every cycle of a sequence.
C1_MinNodesFloor ==
    \A g \in Groups :
        Len(opts[g].untaintedNodes) >= cfg[g].MinNodes =>
            /\ Len(taintedIndices[g]) <=
                  Len(opts[g].untaintedNodes) - cfg[g].MinNodes
            /\ Cardinality(StillUntainted(g)) >= cfg[g].MinNodes
            /\ Len(UntaintedOf(g)) >= cfg[g].MinNodes

\* the floor was binding: more was asked than the floor allows, and the pass
\* tainted real nodes exactly down to the floor, in a second cycle
C1_Witness ==
    \E g \in Groups :
        /\ Finished(g)
        /\ cycles[g] = 2
        /\ ~dryMode(g)
        /\ cfg[g].MinNodes >= 1
        /\ opts[g].nodesDelta > Len(opts[g].untaintedNodes) - cfg[g].MinNodes
        /\ Len(taintedIndices[g]) >= 1
        /\ Cardinality(StillUntainted(g)) = cfg[g].MinNodes

Holders == {g \in Groups : record[g] # NoReservation}
InTainter == {g \in Groups : pc[g] \in {"sort", "loop"}}
TaintedBy == [g \in Groups |-> Len(taintedIndices[g])]

\* C2: with concurrent cycles, at every moment the granted outstanding
\* reservations sum to the lock's counter, which is at most MaximumTaints, and
\* the nodes tainted by the passes in progress number at most MaximumTaints.
C2_ConcurrentCeiling ==
    /\ reserved = SumOver(record, Holders)
    /\ reserved <= MaximumTaints
    /\ \A g \in Holders : record[g] >= 0
    /\ SumOver(TaintedBy, InTainter) <= MaximumTaints

\* two passes in progress at once that together used the whole ceiling
C2_Witness ==
    /\ Holders = Groups
    /\ \A g \in Groups : pc[g] = "loop" /\ Len(taintedIndices[g]) >= 1
    /\ reserved = MaximumTaints
    /\ SumOver(TaintedBy, InTainter) = MaximumTaints

\* C3: one invocation of taintOldestN returns at most min(n, MaximumTaints)
\* indices, and has really tainted at most that many nodes.
C3_TainterBound ==
    \A g \in Groups :
        /\ Len(taintedIndices[g]) <= Min2(nodesToRemove[g], MaximumTaints)
        /\ Cardinality({id \in Range(opts[g].untaintedNodes) :
                           nodes[g][id].tainted /\ ~nodes[g][id].deleted})
              <= Min2(nodesToRemove[g], MaximumTaints)

\* n above the ceiling, more candidates than the ceiling, and the invocation
\* returned exactly MaximumTaints indices
C3_Witness ==
    \E g \in Groups :
        /\ pc[g] = "idle"
        /\ Len(calls[g].release) = 1
        /\ nodesToRemove[g] > MaximumTaints
        /\ Len(opts[g].untaintedNodes) > MaximumTaints
        /\ Len(taintedIndices[g]) = MaximumTaints

\* the three cases of the grace-period state machine for one examined node
GraceDecision(g, e) ==
    IF e.elapsed <= cfg[g].Soft THEN FALSE
    ELSE IF e.elapsed <= cfg[g].Hard THEN e.empty
    ELSE TRUE

InDeleteBatch(g, id) ==
    \E k \in 1..Len(toBeDeleted[g]) : toBeDeleted[g][k] = id

\* C4 as stated: with S < H, a tainted node with a readable timestamp is
\* cordoned and put in the delete batch never while T <= S, exactly when it
\* is empty while S < T <= H, and always once T > H.
C4_AsStated ==
    \A g \in Groups : \A k \in 1..Len(reapLog[g]) :
        (cfg[g].Soft < cfg[g].Hard /\ reapLog[g][k].readable) =>
            (InDeleteBatch(g, reapLog[g][k].node)
                <=> GraceDecision(g, reapLog[g][k]))

\* C4: with S < H, for a tainted node with a readable timestamp the Reaper,
\* in real mode, calls cordon never while T <= S, exactly when the node is
\* empty while S < T <= H, and always once T > H; the node is in the delete
\* batch exactly when that cordon succeeded, now cordoned.  In dry mode no
\* node is cordoned or batched.
C4_GracePeriod ==
    \A g \in Groups : \A k \in 1..Len(reapLog[g]) :
        LET e == reapLog[g][k]
            called == \E c \in 1..Len(calls[g].cordon) :
                          calls[g].cordon[c] = e.node
        IN (cfg[g].Soft < cfg[g].Hard /\ e.readable) =>
              /\ called <=> (~(cfg[g].DryMode \/ masterDry)
                                /\ GraceDecision(g, e))
              /\ InDeleteBatch(g, e.node) => called
              /\ InDeleteBatch(g, e.node) <=> e.batched
              /\ e.batched => nodes[g][e.node].cordoned

\* one real-mode pass with S < H that met the three cases on occupied nodes
\* and an empty node in the soft window: only T > H and the empty one batched
C4_Witness ==
    \E g \in Groups :
        /\ pc[g] = "taint"
        /\ ~dryMode(g)
        /\ cfg[g].Soft < cfg[g].Hard
        /\ \E k \in 1..Len(reapLog[g]) :
              /\ reapLog[g][k].readable
              /\ reapLog[g][k].elapsed > cfg[g].Hard
              /\ ~reapLog[g][k].empty
              /\ InDeleteBatch(g, reapLog[g][k].node)
        /\ \E k \in 1..Len(reapLog[g]) :
              /\ reapLog[g][k].readable
              /\ reapLog[g][k].elapsed > cfg[g].Soft
              /\ reapLog[g][k].elapsed <= cfg[g].Hard
              /\ reapLog[g][k].empty
              /\ InDeleteBatch(g, reapLog[g][k].node)
        /\ \E k \in 1..Len(reapLog[g]) :
              /\ reapLog[g][k].readable
              /\ reapLog[g][k].elapsed <= cfg[g].Soft
              /\ ~InDeleteBatch(g, reapLog[g][k].node)

\* C5: in dry mode a whole ScaleDown cycle issues no taint call and no
\* cordon call, every batch handed to the backend delete is empty, and no
\* step changes a node of the group; the cycle's effects are appends to the
\* dry-run tracker, counted one for one by the dry-run counter.
C5_DryModeMutatesNothing ==
    /\ [](\A g \in Groups :
            (cfg[g].DryMode \/ masterDry) =>
                /\ calls[g].taint = <<>>
                /\ calls[g].cordon = <<>>
                /\ toBeDeleted[g] = <<>>
                /\ \A k \in 1..Len(calls[g].delete) :
                      calls[g].delete[k].batch = <<>>)
    /\ [][\A g \in Groups :
            (cfg[g].DryMode \/ masterDry) => nodes'[g] = nodes[g]]_vars
    /\ [][SumOver([g \in Groups |-> Len(taintTracker'[g])], Groups)
            - SumOver([g \in Groups |-> Len(taintTracker[g])], Groups)
          = taintCount' - taintCount]_vars

\* a finished dry cycle whose Reaper met a node past its grace period and
\* whose Tainter simulated a taint
C5_Witness ==
    \E g \in Groups :
        /\ Finished(g)
        /\ dryMode(g)
        /\ \E k \in 1..Len(reapLog[g]) : reapLog[g][k].eligible
        /\ Len(calls[g].delete) = 1
        /\ Len(taintTracker[g]) > Len(calls[g].tracker0)
        /\ taintCount >= 1

\* the Reaper of the running cycle is through and scaleDownTaint has acted
TainterRan(g) == Len(calls[g].delete) = 1 /\ pc[g] # "taint"

BelowFloor(g) == Len(opts[g].untaintedNodes) < cfg[g].MinNodes

Refused(g) ==
    Len(calls[g].reserve) = 1 /\ ~calls[g].reserve[1].granted

NothingTainted(g) ==
    /\ calls[g].taint = <<>>
    /\ taintedIndices[g] = <<>>
    /\ taintTracker[g] = calls[g].tracker0

\* C6 as stated: a cycle that hits a capacity violation (untainted count
\* below the floor, or Reserve refused) returns an error and has tainted no
\* node, cordoned none and sent none to the backend for deletion.
C6_AsStated ==
    \A g \in Groups :
        (TainterRan(g) /\ (BelowFloor(g) \/ Refused(g))) =>
            /\ pc[g] = "idle"
            /\ ret[g].err \in {ErrBelowMin, ErrCapacityExceeded}
            /\ NothingTainted(g)
            /\ calls[g].cordon = <<>>
            /\ \A k \in 1..Len(calls[g].delete) :
                  calls[g].delete[k].batch = <<>>

\* C6: a cycle whose scaleDownTaint hits a capacity violation (untainted
\* count below the floor, or Reserve refused) returns count 0 with the
\* capacity error, and its Tainter has done nothing: no taint call, no index,
\* no tracker entry, no Release, no reservation left.  What the Reaper of the
\* same cycle cordoned and sent for deletion before stays done.
C6_CapacityViolation ==
    \A g \in Groups :
        (TainterRan(g) /\ (BelowFloor(g) \/ Refused(g))) =>
            /\ pc[g] = "idle"
            /\ ret[g].n = 0
            /\ ret[g].err = IF BelowFloor(g) THEN ErrBelowMin
                            ELSE ErrCapacityExceeded
            /\ NothingTainted(g)
            /\ calls[g].release = <<>>
            /\ record[g] = NoReservation

\* a cycle cancelled below the floor after its Reaper cordoned a node and
\* had it deleted
C6_Witness ==
    \E g \in Groups :
        /\ TainterRan(g)
        /\ BelowFloor(g)
        /\ ret[g].err = ErrBelowMin
        /\ Len(calls[g].cordon) >= 1
        /\ calls[g].delete[1].batch # <<>>
        /\ calls[g].delete[1].ok

BelowFloorAborted(g) ==
    /\ calls[g].reserve = <<>>
    /\ calls[g].release = <<>>
    /\ record[g] = NoReservation
    /\ NothingTainted(g)
    /\ pc[g] = "idle"
    /\ ret[g] = [n |-> 0, err |-> ErrBelowMin]

C8_ClampValue ==
    \A g \in Groups :
        (TainterRan(g) /\ ~BelowFloor(g) /\ opts[g].nodesDelta >= 0) =>
            LET want == Min2(opts[g].nodesDelta,
                             Len(opts[g].untaintedNodes) - cfg[g].MinNodes)
            IN /\ Len(calls[g].reserve) = 1
               /\ calls[g].reserve[1].n = want
               /\ nodesToRemove[g] = want
               /\ ret[g].err # ErrBelowMin
               /\ (pc[g] = "idle" /\ Len(opts[g].untaintedNodes)
                                        = cfg[g].MinNodes)
                     => ret[g] = [n |-> 0, err |-> NoErr]

\* three asked, one allowed by the floor: one reserved, one tainted, no error
C8_Witness ==
    \E g \in Groups :
        /\ Finished(g)
        /\ opts[g].nodesDelta = 3
        /\ Len(opts[g].untaintedNodes) - cfg[g].MinNodes = 1
        /\ calls[g].reserve[1].n = 1
        /\ calls[g].reserve[1].granted
        /\ ret[g] = [n |-> 1, err |-> NoErr]

\* C9: a refused Reserve makes scaleDownTaint return (0, error) without
\* calling the Tainter: no taint call, no tracker append, no Release, and the
\* lock as it was before the call.
C9_RefusedReservation ==
    \A g \in Groups :
        Refused(g) =>
            /\ pc[g] = "idle"
            /\ ret[g] = [n |-> 0, err |-> ErrCapacityExceeded]
            /\ NothingTainted(g)
            /\ sorted[g] = <<>>
            /\ calls[g].release = <<>>
            /\ record[g] = NoReservation
            /\ calls[g].reserve[1].after = calls[g].reserve[1].before

\* refused because of what the other node group holds, which it still holds
C9_Witness ==
    \E g \in Groups :
        /\ Refused(g)
        /\ calls[g].reserve[1].n <= MaximumTaints
        /\ calls[g].reserve[1].before >= 1
        /\ reserved = calls[g].reserve[1].before
        /\ \E h \in Groups \ {g} : record[h] = reserved

RoundTrip(g) ==
    LET r == calls[g].reserve[1]
    IN /\ r.granted
       /\ r.after = r.before + r.n
       /\ pc[g] = "idle" =>
             /\ Len(calls[g].release) = 1
             /\ calls[g].release[1].actual = r.n =>
                   /\ calls[g].release[1].err = NoErr
                   /\ ret[g].err = NoErr
                   /\ calls[g].release[1].after = r.before
                   /\ reserved = r.before
             /\ calls[g].release[1].actual # r.n =>
                   /\ calls[g].release[1].err = ErrReservationMismatch
                   /\ ret[g].err = ErrReservationMismatch

OnIdleLock(g) ==
    /\ Len(calls[g].reserve) = 1
    /\ calls[g].reserve[1].before = 0
    /\ \A h \in Groups \ {g} : record[h] = NoReservation

Granted(g) ==
    Len(calls[g].reserve) = 1 /\ calls[g].reserve[1].granted

\* the nodes the indices returned by the Tainter designate
Returned(g) ==
    {opts[g].untaintedNodes[taintedIndices[g][k]] :
        k \in 1..Len(taintedIndices[g])}

\* C11: after a granted Reserve(n) the reservation stays outstanding until
\* scaleDownTaint returns, which it does through one Release called with the
\* number of nodes actually tainted; it returns an error exactly when that
\* number differs from n, and then still returns the number actually tainted
\* and leaves those taints applied.
C11_ReservationMismatch ==
    \A g \in Groups :
        Granted(g) =>
            LET n == calls[g].reserve[1].n
                actual == Len(taintedIndices[g])
            IN /\ pc[g] \in {"sort", "loop"} =>
                     calls[g].release = <<>> /\ record[g] = n
               /\ pc[g] = "idle" =>
                     /\ Len(calls[g].release) = 1
                     /\ calls[g].release[1].actual = actual
                     /\ ret[g].n = actual
                     /\ ret[g].err # NoErr <=> actual # n
                     /\ ret[g].err # NoErr =>
                           ret[g].err = ErrReservationMismatch
                     /\ ~dryMode(g) =>
                           /\ Len(calls[g].taint) >= actual
                           /\ \A id \in Returned(g) :
                                 nodes[g][id].tainted /\ ~nodes[g][id].deleted

\* two reserved, one taint call failed: one node tainted and returned along
\* with the mismatch
C11_Witness ==
    \E g \in Groups :
        /\ Granted(g)
        /\ pc[g] = "idle"
        /\ ~dryMode(g)
        /\ calls[g].reserve[1].n = 2
        /\ \E k \in 1..Len(calls[g].taint) : ~calls[g].taint[k].ok
        /\ ret[g] = [n |-> 1, err |-> ErrReservationMismatch]
        /\ \A id \in Returned(g) : nodes[g][id].tainted

TainterResult(g) ==
    IF calls[g].reserve = <<>> THEN [n |-> 0, err |-> ErrBelowMin]
    ELSE IF ~calls[g].reserve[1].granted
    THEN [n |-> 0, err |-> ErrCapacityExceeded]
    ELSE [n |-> Len(taintedIndices[g]), err |-> calls[g].release[1].err]

\* C13: in every ScaleDown cycle the Reaper pass is complete (every listed
\* tainted node examined, the delete request issued) before scaleDownTaint
\* does anything; the step after the delete request is scaleDownTaint
\* whether the request succeeded or failed; and what ScaleDown returns is the
\* Tainter's count and error, whatever the Reaper counted.
C13_ReaperThenTainter ==
    /\ [](\A g \in Groups :
            /\ pc[g] = "reap" =>
                  /\ calls[g].delete = <<>>
                  /\ calls[g].reserve = <<>>
                  /\ calls[g].release = <<>>
                  /\ NothingTainted(g)
                  /\ sorted[g] = <<>>
            /\ (pc[g] \in {"taint", "sort", "loop"} \/ Finished(g)) =>
                  /\ Len(calls[g].delete) = 1
                  /\ Len(reapLog[g]) = Len(opts[g].taintedNodes)
                  /\ removed[g] = Len(calls[g].delete[1].batch)
            /\ Finished(g) => ret[g] = TainterResult(g))
    /\ [][\A g \in Groups :
            Len(calls'[g].delete) > Len(calls[g].delete) =>
                pc'[g] = "taint" /\ ret'[g] = ret[g]]_vars

\* the backend refused a batch of one node, and the cycle went on to taint
\* two nodes and returned (2, nil)
C13_Witness ==
    \E g \in Groups :
        /\ Finished(g)
        /\ removed[g] = 1
        /\ ~calls[g].delete[1].ok
        /\ Len(calls[g].taint) = 2
        /\ ret[g] = [n |-> 2, err |-> NoErr]

\* the Reaper pass of the running cycle has issued its delete request
ReaperDone(g) == Len(calls[g].delete) = 1

EligibleAndCordoned(g) ==
    {k \in 1..Len(reapLog[g]) :
        /\ reapLog[g][k].eligible
        /\ reapLog[g][k].batched
        /\ nodes[g][reapLog[g][k].node].cordoned}

\* C15: a Reaper pass issues one backend delete request, none before every
\* listed tainted node has been examined, and returns the size of that
\* request's batch, which is the number of examined nodes that were eligible
\* and successfully cordoned, whether the backend delete succeeds or fails.
C15_ReaperResult ==
    \A g \in Groups :
        /\ Len(calls[g].delete) <= 1
        /\ Len(reapLog[g]) < Len(opts[g].taintedNodes) =>
              calls[g].delete = <<>>
        /\ pc[g] = "reap" => calls[g].delete = <<>>
        /\ Len(calls[g].delete) = 1 =>
              /\ Len(reapLog[g]) = Len(opts[g].taintedNodes)
              /\ calls[g].delete[1].batch = toBeDeleted[g]
              /\ removed[g] = Len(calls[g].delete[1].batch)
              /\ removed[g] = Cardinality(EligibleAndCordoned(g))

\* a failed delete request for two nodes, counted as two, after a pass in
\* which a third eligible node could not be cordoned
C15_Witness ==
    \E g \in Groups :
        /\ Len(calls[g].delete) = 1
        /\ ~calls[g].delete[1].ok
        /\ removed[g] = 2
        /\ \E k \in 1..Len(reapLog[g]) :
              reapLog[g][k].cordon /\ ~reapLog[g][k].batched

Attempts(g) ==
    IF dryMode(g) THEN Len(taintTracker[g]) - Len(calls[g].tracker0)
    ELSE Len(calls[g].taint)

\* the Tainter pass of g has been called and has not been left by a panic
InWalk(g) == pc[g] = "loop" \/ Len(calls[g].release) = 1

\* C17: one invocation of taintOldestN attempts to taint, really or in
\* simulation, exactly the candidates it examines, in rank order and each at
\* most once, and at most MaximumTaints of them, failed attempts included;
\* when it returns fewer than n indices it has examined MaximumTaints
\* candidates or all of them.
C17_ScanCeiling ==
    \A g \in Groups :
        InWalk(g) =>
            /\ Attempts(g) <= MaximumTaints
            /\ Attempts(g) = idx[g] - 1
            /\ \A k \in 1..Len(calls[g].taint) :
                  calls[g].taint[k].node
                     = opts[g].untaintedNodes[sorted[g][k]]
            /\ \A j, k \in 1..Len(calls[g].taint) :
                  j # k => calls[g].taint[j].node # calls[g].taint[k].node
            /\ Len(taintedIndices[g]) <= Attempts(g)
            /\ (Len(calls[g].release) = 1
                   /\ Len(taintedIndices[g]) < nodesToRemove[g]) =>
                  Attempts(g) = Min2(MaximumTaints, Len(sorted[g]))

\* the first MaximumTaints candidates all failed to be marked: the walk
\* returned no index although more was asked and a candidate was left
C17_Witness ==
    \E g \in Groups :
        /\ Len(calls[g].release) = 1
        /\ ~dryMode(g)
        /\ Len(calls[g].taint) = MaximumTaints
        /\ \A k \in 1..Len(calls[g].taint) : ~calls[g].taint[k].ok
        /\ Len(sorted[g]) > MaximumTaints
        /\ nodesToRemove[g] >= 1
        /\ taintedIndices[g] = <<>>

\* creation time of the node at position i of the Tainter's input list
CreatedOf(g, i) == nodes[g][opts[g].untaintedNodes[i]].created

\* the nodes of the input list the running Tainter pass has tainted, really
\* or in simulation
TaintedInWalk(g) ==
    IF dryMode(g)
    THEN {taintTracker[g][k] :
             k \in (Len(calls[g].tracker0) + 1)..Len(taintTracker[g])}
    ELSE {id \in Range(opts[g].untaintedNodes) : nodes[g][id].tainted}

NoAttemptFailed(g) ==
    \A k \in 1..Len(calls[g].taint) : calls[g].taint[k].ok

\* C18: taintOldestN examines the candidates in an order that is a
\* permutation of the input list, non-decreasing in creation time; the
\* indices it returns are distinct, valid positions of the input list, in
\* that order, and designate exactly the nodes it tainted; when no taint
\* attempt fails, every tainted node was created no later than every node of
\* the list left untainted.
C18_OldestFirst ==
    \A g \in Groups :
        InWalk(g) =>
            LET len == Len(opts[g].untaintedNodes)
                ti == taintedIndices[g]
            IN /\ Len(sorted[g]) = len
               /\ {sorted[g][k] : k \in 1..len} = 1..len
               /\ \A j, k \in 1..len :
                     j < k => CreatedOf(g, sorted[g][j])
                                 <= CreatedOf(g, sorted[g][k])
               /\ \A k \in 1..Len(ti) : ti[k] \in 1..len
               /\ \A j, k \in 1..Len(ti) : j # k => ti[j] # ti[k]
               /\ \A j, k \in 1..Len(ti) :
                     j < k => CreatedOf(g, ti[j]) <= CreatedOf(g, ti[k])
               /\ Returned(g) = TaintedInWalk(g)
               /\ NoAttemptFailed(g) =>
                     \A t \in Returned(g) :
                        \A u \in Range(opts[g].untaintedNodes) \ Returned(g) :
                           nodes[g][t].created <= nodes[g][u].created

\* the input list starts with its youngest node: the pass, without a failed
\* attempt, returned the position of an older node and left the first alone
C18_Witness ==
    \E g \in Groups :
        /\ Len(calls[g].release) = 1
        /\ ~dryMode(g)
        /\ NoAttemptFailed(g)
        /\ Len(taintedIndices[g]) >= 1
        /\ taintedIndices[g][1] # 1
        /\ ~nodes[g][opts[g].untaintedNodes[1]].tainted
        /\ CreatedOf(g, taintedIndices[g][1]) < CreatedOf(g, 1)

\* C19: in a Reaper pass a tainted node whose timestamp cannot be read is
\* neither cordoned nor batched, and a node whose cordon call fails is not
\* batched; the pass goes on all the same: it examines every node of the
\* list, in order, before its delete request, and a node is in the batch
\* exactly when its own timestamp and emptiness make it eligible and its own
\* cordon call was made and succeeded.
C19_ReaperFailuresIsolated ==
    \A g \in Groups :
        /\ pc[g] = "reap" => Len(reapLog[g]) = idx[g] - 1
        /\ ReaperDone(g) => Len(reapLog[g]) = Len(opts[g].taintedNodes)
        /\ \A k \in 1..Len(reapLog[g]) :
              LET e == reapLog[g][k]
                  called == \E c \in 1..Len(calls[g].cordon) :
                                calls[g].cordon[c] = e.node
              IN /\ e.node = opts[g].taintedNodes[k]
                 /\ ~e.readable =>
                       ~called /\ ~e.cordon /\ ~InDeleteBatch(g, e.node)
                 /\ (e.cordon /\ ~e.batched) => ~InDeleteBatch(g, e.node)
                 /\ called <=> e.cordon
                 /\ e.cordon <=> (e.readable /\ ~dryMode(g) /\
                                    Eligible(e.elapsed, cfg[g].Soft,
                                             cfg[g].Hard, e.empty))
                 /\ InDeleteBatch(g, e.node) <=> (e.cordon /\ e.batched)

\* a pass over three nodes: no readable timestamp on the first, a failed
\* cordon on the second, and the third batched
C19_Witness ==
    \E g \in Groups :
        /\ ReaperDone(g)
        /\ Len(reapLog[g]) = 3
        /\ ~reapLog[g][1].readable
        /\ reapLog[g][2].cordon /\ ~reapLog[g][2].batched
        /\ reapLog[g][3].batched
        /\ calls[g].delete[1].batch = <<reapLog[g][3].node>>

\* C20: the tracker of a node group is what the cycle found, followed in dry
\* mode by the names of the nodes whose indices the Tainter pass returns, one
\* entry per index, in rank order, and by nothing in real mode; every step of
\* a cycle leaves the tracker alone or appends one name to it in dry mode,
\* and the dry-run counter goes up by one with each append and at no other
\* step.
C20_TrackerAppendOnly ==
    /\ [](\A g \in Groups :
            LET t0 == Len(calls[g].tracker0)
                ti == taintedIndices[g]
            IN /\ \A k \in 1..t0 : taintTracker[g][k] = calls[g].tracker0[k]
               /\ Len(taintTracker[g])
                     = t0 + (IF dryMode(g) THEN Len(ti) ELSE 0)
               /\ dryMode(g) =>
                     \A k \in 1..Len(ti) :
                        /\ taintTracker[g][t0 + k]
                              = opts[g].untaintedNodes[ti[k]]
                        /\ ti[k] = sorted[g][k])
    /\ [][\A g \in Groups :
            \/ taintTracker'[g] = taintTracker[g]
            \/ /\ dryMode(g)
               /\ Len(taintTracker'[g]) = Len(taintTracker[g]) + 1
               /\ \A k \in 1..Len(taintTracker[g]) :
                     taintTracker'[g][k] = taintTracker[g][k]
               /\ taintCount' = taintCount + 1]_vars
    /\ [][taintCount' # taintCount =>
            \E g \in Groups : taintTracker'[g] # taintTracker[g]]_vars

\* a second dry cycle that found entries of the first in the tracker and
\* added two of its own
C20_Witness ==
    \E g \in Groups :
        /\ Finished(g)
        /\ dryMode(g)
        /\ Len(calls[g].tracker0) >= 1
        /\ Len(taintedIndices[g]) = 2
        /\ Len(taintTracker[g]) = Len(calls[g].tracker0) + 2
        /\ taintCount = Len(taintTracker[g])

====
